---------------------------- MODULE Spec2Model ----------------------------
(***************************************************************************)
(* A model of gbers: the cartridge header decoder (src/src/hw/cart.rs),    *)
(* the capacity-code conversions and the instruction decoder skeleton      *)
(* (src/src/hw/cpu/instr.rs), and the 16-bit register pair                 *)
(* (src/src/hw/cpu/register.rs).                                           *)
(*                                                                         *)
(* Every function of the program is a pure function of its arguments, so   *)
(* each is an operator, and each action applies one function to the loaded *)
(* ROM image (or to a drawn input) and records what the call produced.     *)
(* A Rust Result is a record: Ok(v), Err(e), or Panic when the call does   *)
(* not return at all (a failed bounds check of a slice index, or           *)
(* unimplemented!()).                                                      *)
(***************************************************************************)
EXTENDS Integers, Sequences, FiniteSets, TLC

VARIABLES
  bytes,   \* ROM.bytes: the loaded image, a sequence of bytes (1-based here)
  call,    \* the name of the last function called ("none" before any call)
  arg,     \* the argument of that call besides the ROM
  ret,     \* what the call produced
  reg      \* a CompositeReg: its upper and its lower Reg.value

vars == <<bytes, call, arg, ret, reg>>

Byte == 0 .. 255

---------------------------------------------------------------------------
(* Bounds of the model                                                     *)

\* Buffers are as long as the header (0x150 bytes) plus at most MaxPad bytes.
MaxPad == 2

\* Capacity codes handed to ROMNum::try_from / RAMNum::try_from: 0 .. MaxCode.
MaxCode == 96

\* Longest window handed to Instr::decode.
MaxWindow == 4

---------------------------------------------------------------------------
(* Results                                                                 *)

Ok(v) == [kind |-> "Ok", val |-> v]

Err(e) == [kind |-> "Err", err |-> e]

\* The call unwinds instead of returning.
Panic == [kind |-> "Panic"]

IsOk(r) == r.kind = "Ok"

IsErr(r) == r.kind = "Err"

\* The variants of CartErr that carry no i/o error.
RegionOOB == [tag |-> "RegionOOB"]

UnknownComponents(b) == [tag |-> "UnknownComponents", code |-> b]

UnknownROMSize(n) == [tag |-> "UnknownROMSize", code |-> n]

UnknownRAMSize(n) == [tag |-> "UnknownRAMSize", code |-> n]

BadHeaderChecksum(computed, stored) ==
  [tag |-> "BadHeaderChecksum", computed |-> computed, stored |-> stored]

KILOBYTE_BYTES == 1024

---------------------------------------------------------------------------
(* Regions: Region(lo, hi, PhantomData<T>), with size_of::<T>() as width.  *)

Region(lo, hi, width) == [lo |-> lo, hi |-> hi, width |-> width]

META_ENTRY == Region(\h100, \h104, 4)

META_LOGO == Region(\h104, \h134, 48)

META_TITLE == Region(\h134, \h144, 16)

META_MANUFACTURER == Region(\h13F, \h143, 4)

META_CGB_FLAG == Region(\h143, \h144, 1)

META_LICENSEE == Region(\h144, \h146, 2)

META_SGB_FLAG == Region(\h146, \h147, 1)

META_COMPONENTS == Region(\h147, \h148, 1)

META_ROM_SIZE == Region(\h148, \h149, 1)

META_RAM_SIZE == Region(\h149, \h14A, 1)

META_DEST == Region(\h14A, \h14B, 1)

META_LICENSEE_OLD == Region(\h14B, \h14C, 1)

META_VERSION == Region(\h14C, \h14D, 1)

META_CHECKSUM_HDR == Region(\h14D, \h14E, 1)

META_CHECKSUM_ALL == Region(\h14E, \h150, 2)

RANGE_CHECKSUM == Region(\h134, \h14D, \h14D - \h134)

EXEC_BOOT == Region(\h0, \h256, 256)

\* Every Region constant of mod regions.
Regions ==
  { META_ENTRY, META_LOGO, META_TITLE, META_MANUFACTURER, META_CGB_FLAG,
    META_LICENSEE, META_SGB_FLAG, META_COMPONENTS, META_ROM_SIZE,
    META_RAM_SIZE, META_DEST, META_LICENSEE_OLD, META_VERSION,
    META_CHECKSUM_HDR, META_CHECKSUM_ALL, RANGE_CHECKSUM, EXEC_BOOT }

---------------------------------------------------------------------------
(* ROM and ROMSlice                                                        *)

\* ROM::size_bytes
ROM_size_bytes(rom) == Len(rom)

\* rom.bytes[lo .. hi] for lo <= hi <= len: the bytes at offsets lo .. hi-1.
SliceOf(rom, lo, hi) == [i \in 1 .. (hi - lo) |-> rom[lo + i]]

\* Region::is_in_bounds
Region_is_in_bounds(region, rom) ==
  ~(\/ region.lo >= ROM_size_bytes(rom)
    \/ region.hi < region.lo
    \/ region.hi >= ROM_size_bytes(rom))

\* ROMSlice::try_new: Ok(ROMSlice {rom, region, bytes}) or Err(RegionOOB).
ROMSlice_try_new(rom, region) ==
  IF Region_is_in_bounds(region, rom)
  THEN Ok([region |-> region, bytes |-> SliceOf(rom, region.lo, region.hi)])
  ELSE Err(RegionOOB)

\* ROM::region
ROM_region(rom, region) == ROMSlice_try_new(rom, region)

\* ROMSlice::convert_from (and ROMSlice::into, which only calls it):
\* &self.bytes[self.region.0] indexes the extracted slice, whose first byte
\* is the ROM's byte at region.0, with the region's start offset.  The index
\* is bounds-checked, so it panics when region.0 >= self.bytes.len().  When it
\* does not, the reference is reinterpreted as &T and size_of::<T>() bytes are
\* cloned from there; a read that runs past the slice is undefined ("UB").
ROMSlice_convert_from(slice) ==
  LET idx == slice.region.lo
      w   == slice.region.width
  IN  IF idx >= Len(slice.bytes) THEN Panic
      ELSE IF idx + w > Len(slice.bytes) THEN [kind |-> "UB"]
      ELSE Ok([i \in 1 .. w |-> slice.bytes[idx + i]])

\* rom.region(&R)?.into(): the typed value of region R, Err(RegionOOB), or
\* a panic.
ReadRegion(rom, region) ==
  LET s == ROM_region(rom, region)
  IN  IF IsOk(s) THEN ROMSlice_convert_from(s.val) ELSE s

\* The same for a Region<u8>: the value is the one byte.
ReadByte(rom, region) ==
  LET v == ReadRegion(rom, region)
  IN  IF IsOk(v) THEN Ok(v.val[1]) ELSE v

---------------------------------------------------------------------------
(* Capacity classes                                                        *)

\* enum ROMNum, in declaration order.
ROMNums == <<"N2", "N4", "N8", "N16", "N32", "N64", "N128", "N72", "N80", "N96">>

ROMNumSet == {ROMNums[i] : i \in 1 .. Len(ROMNums)}

\* enum RAMNum, in declaration order.
RAMNums == <<"N0", "N1_2kB", "N1_8kB", "N3", "N4">>

RAMNumSet == {RAMNums[i] : i \in 1 .. Len(RAMNums)}

\* enum MBCNum.
MBCNumSet == {"N1", "N2", "N3", "N5"}

\* `self as usize` of a ROMNum: the enum declares no discriminants, so a
\* variant's value is its position in the declaration, from 0.
ROMNum_as_usize(k) == (CHOOSE i \in 1 .. Len(ROMNums) : ROMNums[i] = k) - 1

\* ROMNum::size_bytes
ROMNum_size_bytes(k) == ROMNum_as_usize(k) * (16 * KILOBYTE_BYTES)

\* ROMNum::into with the codes of N72 and N80 exchanged.
ROMNum_into_swapped(k) ==
  CASE k = "N2"   -> 0
    [] k = "N4"   -> 1
    [] k = "N8"   -> 2
    [] k = "N16"  -> 3
    [] k = "N32"  -> 4
    [] k = "N64"  -> 5
    [] k = "N128" -> 6
    [] k = "N72"  -> \h53
    [] k = "N80"  -> \h52
    [] k = "N96"  -> \h54

\* impl Into<usize> for ROMNum
ROMNum_into(k) ==
  CASE k = "N2"   -> 0
    [] k = "N4"   -> 1
    [] k = "N8"   -> 2
    [] k = "N16"  -> 3
    [] k = "N32"  -> 4
    [] k = "N64"  -> 5
    [] k = "N128" -> 6
    [] k = "N72"  -> \h52
    [] k = "N80"  -> \h53
    [] k = "N96"  -> \h54

\* impl TryFrom<usize> for ROMNum
ROMNum_try_from(other) ==
  CASE other = 0    -> Ok("N2")
    [] other = 1    -> Ok("N4")
    [] other = 2    -> Ok("N8")
    [] other = 3    -> Ok("N16")
    [] other = 4    -> Ok("N32")
    [] other = 5    -> Ok("N64")
    [] other = 6    -> Ok("N128")
    [] other = \h52 -> Ok("N72")
    [] other = \h53 -> Ok("N80")
    [] other = \h54 -> Ok("N96")
    [] OTHER        -> Err(UnknownROMSize(other))

\* RAMNum::size_bytes
RAMNum_size_bytes(k) ==
  CASE k = "N0"     -> 0
    [] k = "N1_2kB" -> 2 * KILOBYTE_BYTES
    [] k = "N1_8kB" -> 8 * KILOBYTE_BYTES
    [] k = "N3"     -> 32 * KILOBYTE_BYTES
    [] k = "N4"     -> 128 * KILOBYTE_BYTES

\* impl Into<usize> for RAMNum
RAMNum_into(k) ==
  CASE k = "N0"     -> 0
    [] k = "N1_2kB" -> 1
    [] k = "N1_8kB" -> 2
    [] k = "N3"     -> 3
    [] k = "N4"     -> 4

\* impl TryFrom<usize> for RAMNum
RAMNum_try_from(other) ==
  CASE other = 0 -> Ok("N0")
    [] other = 1 -> Ok("N1_2kB")
    [] other = 2 -> Ok("N1_8kB")
    [] other = 3 -> Ok("N3")
    [] other = 4 -> Ok("N4")
    [] OTHER     -> Err(UnknownRAMSize(other))

---------------------------------------------------------------------------
(* Components                                                              *)

ROM(n) == [c |-> "ROM", n |-> n]

MBC(n) == [c |-> "MBC", n |-> n]

RAM(n) == [c |-> "RAM", n |-> n]

Battery == [c |-> "Battery"]

MMM == [c |-> "MMM"]

SRAM == [c |-> "SRAM"]

Timer == [c |-> "Timer"]

Rumble == [c |-> "Rumble"]

PocketCam == [c |-> "PocketCam"]

BandaiTAMA5 == [c |-> "BandaiTAMA5"]

HudsonHUC1 == [c |-> "HudsonHUC1"]

HudsonHUC3 == [c |-> "HudsonHUC3"]

\* The match of decode_components on the converted byte of META_COMPONENTS.
ComponentsMatch(x, romnum, ramnum) ==
  CASE x = \h0  -> Ok(<<ROM(romnum)>>)
    [] x = \h1  -> Ok(<<ROM(romnum), MBC("N1")>>)
    [] x = \h2  -> Ok(<<ROM(romnum), MBC("N1"), RAM(ramnum)>>)
    [] x = \h3  -> Ok(<<ROM(romnum), MBC("N1"), RAM(ramnum), Battery>>)
    [] x = \h5  -> Ok(<<ROM(romnum), MBC("N2")>>)
    [] x = \h6  -> Ok(<<ROM(romnum), MBC("N2"), Battery>>)
    [] x = \h8  -> Ok(<<ROM(romnum), RAM(ramnum)>>)
    [] x = \hB  -> Ok(<<ROM(romnum), MMM>>)
    [] x = \hC  -> Ok(<<ROM(romnum), MMM, SRAM>>)
    [] x = \hD  -> Ok(<<ROM(romnum), MMM, SRAM, Battery>>)
    [] x = \hF  -> Ok(<<ROM(romnum), MBC("N3"), Timer, Battery>>)
    [] x = \h10 -> Ok(<<ROM(romnum), MBC("N3"), Timer, RAM(ramnum), Battery>>)
    [] x = \h11 -> Ok(<<ROM(romnum), MBC("N3")>>)
    [] x = \h12 -> Ok(<<ROM(romnum), MBC("N3"), RAM(ramnum)>>)
    [] x = \h13 -> Ok(<<ROM(romnum), MBC("N5"), RAM(ramnum), Battery>>)
    [] x = \h19 -> Ok(<<ROM(romnum), MBC("N5")>>)
    [] x = \h1A -> Ok(<<ROM(romnum), MBC("N5"), RAM(ramnum)>>)
    [] x = \h1B -> Ok(<<ROM(romnum), MBC("N5"), RAM(ramnum), Battery>>)
    [] x = \h1C -> Ok(<<ROM(romnum), MBC("N5"), Rumble>>)
    [] x = \h1D -> Ok(<<ROM(romnum), MBC("N5"), Rumble, SRAM>>)
    [] x = \h1E -> Ok(<<ROM(romnum), MBC("N5"), Rumble, SRAM, Battery>>)
    [] x = \h1F -> Ok(<<PocketCam>>)
    [] x = \hFD -> Ok(<<BandaiTAMA5>>)
    [] x = \hFE -> Ok(<<HudsonHUC3>>)
    [] x = \hFF -> Ok(<<HudsonHUC1>>)
    [] OTHER    -> Err(UnknownComponents(x))

---------------------------------------------------------------------------
(* Header decoding                                                         *)

\* String::from_utf8_lossy(b).into_owned(), kept as the application itself:
\* the text is a function of the 16 bytes that this model does not unfold.
from_utf8_lossy(b) == [utf8_lossy_of |-> b]

\* read_title
read_title(rom) ==
  LET v == ReadRegion(rom, META_TITLE)
  IN  IF IsOk(v) THEN Ok(from_utf8_lossy(v.val)) ELSE v

\* decode_rom_size
decode_rom_size(rom) ==
  LET v == ReadByte(rom, META_ROM_SIZE)
  IN  IF IsOk(v) THEN ROMNum_try_from(v.val) ELSE v

\* decode_ram_size
decode_ram_size(rom) ==
  LET v == ReadByte(rom, META_RAM_SIZE)
  IN  IF IsOk(v) THEN RAMNum_try_from(v.val) ELSE v

\* decode_components
decode_components(rom) ==
  LET romnum == decode_rom_size(rom)
      ramnum == decode_ram_size(rom)
      x      == ReadByte(rom, META_COMPONENTS)
  IN  IF ~IsOk(romnum) THEN romnum
      ELSE IF ~IsOk(ramnum) THEN ramnum
      ELSE IF ~IsOk(x) THEN x
      ELSE ComponentsMatch(x.val, romnum.val, ramnum.val)

\* decode_is_cgb
decode_is_cgb(rom) ==
  LET flag == ReadByte(rom, META_CGB_FLAG)
  IN  IF IsOk(flag) THEN Ok(flag.val = \h80) ELSE flag

\* decode_is_sgb
decode_is_sgb(rom) ==
  LET flag == ReadByte(rom, META_SGB_FLAG)
  IN  IF IsOk(flag) THEN Ok(flag.val = \h3) ELSE flag

\* The loop of check_header_sum: sum = sum - (b as isize) - 1 over the bytes.
\* An isize holds every value 25 bytes can reach, so no step wraps.
RECURSIVE HeaderSum(_)
HeaderSum(bs) ==
  IF bs = <<>> THEN 0
  ELSE HeaderSum(SubSeq(bs, 1, Len(bs) - 1)) - bs[Len(bs)] - 1

\* (sum & 0xFF) as u8: the low eight bits of a two's complement isize.
LowByte(sum) == sum % 256

\* sum as u8: truncation to the low eight bits.
AsU8(sum) == sum % 256

\* check_header_sum
check_header_sum(rom) ==
  LET bs       == ReadRegion(rom, RANGE_CHECKSUM)
      checksum == ReadByte(rom, META_CHECKSUM_HDR)
  IN  IF ~IsOk(bs) THEN bs
      ELSE IF ~IsOk(checksum) THEN checksum
      ELSE LET sum == HeaderSum(bs.val)
           IN  IF LowByte(sum) = checksum.val
               THEN Ok(<<>>)
               ELSE Err(BadHeaderChecksum(AsU8(sum), checksum.val))

\* ROM::from_raw_bytes
ROM_from_raw_bytes(b) == Ok(b)

\* Cartridge::new_no_check
Cartridge_new_no_check(b) ==
  LET rom        == ROM_from_raw_bytes(b)
      title      == read_title(rom.val)
      components == decode_components(rom.val)
      is_cgb     == decode_is_cgb(rom.val)
      is_sgb     == decode_is_sgb(rom.val)
  IN  IF ~IsOk(rom) THEN rom
      ELSE IF ~IsOk(title) THEN title
      ELSE IF ~IsOk(components) THEN components
      ELSE IF ~IsOk(is_cgb) THEN is_cgb
      ELSE IF ~IsOk(is_sgb) THEN is_sgb
      ELSE Ok([title      |-> title.val,
               is_cgb     |-> is_cgb.val,
               is_sgb     |-> is_sgb.val,
               rom        |-> rom.val,
               components |-> components.val])

\* Cartridge::new with the checksum pass run before the construction.
Cartridge_new_check_first(b) ==
  LET c == check_header_sum(b)
  IN  IF ~IsOk(c) THEN c ELSE Cartridge_new_no_check(b)

\* Cartridge::new
Cartridge_new(b) ==
  LET x == Cartridge_new_no_check(b)
  IN  IF ~IsOk(x) THEN x
      ELSE LET c == check_header_sum(x.val.rom)
           IN  IF ~IsOk(c) THEN c ELSE x

\* Cartridge::components
Cartridge_components(cart) == cart.components

\* Cartridge::has_component: self.components.contains(&cmp)
Cartridge_has_component(cart, cmp) ==
  \E i \in 1 .. Len(cart.components) : cart.components[i] = cmp

---------------------------------------------------------------------------
(* Instruction decoding                                                    *)

\* enum Prefix
PrefixSet == {"CB", "DD", "ED", "FD"}

\* `Prefix::X as u8`: the discriminants the enum declares.
Prefix_as_u8(p) ==
  CASE p = "CB" -> \hCB
    [] p = "DD" -> \hDD
    [] p = "ED" -> \hED
    [] p = "FD" -> \hFD

PREFIX_CB == Prefix_as_u8("CB")

PREFIX_DD == Prefix_as_u8("DD")

PREFIX_ED == Prefix_as_u8("ED")

PREFIX_FD == Prefix_as_u8("FD")

\* decode::DecodeErr::UnknownPrefix
UnknownPrefix(b) == [tag |-> "UnknownPrefix", byte |-> b]

\* impl Into<u8> for Prefix
Prefix_into(p) ==
  CASE p = "CB" -> PREFIX_CB
    [] p = "DD" -> PREFIX_DD
    [] p = "ED" -> PREFIX_ED
    [] p = "FD" -> PREFIX_FD

\* Prefix::try_from with the arm of PREFIX_ED missing.
Prefix_try_from_no_ED(raw) ==
  CASE raw = PREFIX_CB -> Ok("CB")
    [] raw = PREFIX_DD -> Ok("DD")
    [] raw = PREFIX_FD -> Ok("FD")
    [] OTHER           -> Err(UnknownPrefix(raw))

\* impl TryFrom<u8> for Prefix
Prefix_try_from(raw) ==
  CASE raw = PREFIX_CB -> Ok("CB")
    [] raw = PREFIX_DD -> Ok("DD")
    [] raw = PREFIX_ED -> Ok("ED")
    [] raw = PREFIX_FD -> Ok("FD")
    [] OTHER           -> Err(UnknownPrefix(raw))

\* Instr::decode: the body is unimplemented!(), which panics on every call.
Instr_decode(raw) == Panic

\* Decoder<Start>::new
Decoder_new(bs) == [bytes |-> bs, state |-> "Start"]

\* impl From<Decoder<Start>> for Decoder<Prefix>: unimplemented!() as well.
Decoder_Prefix_from(dec) == Panic

---------------------------------------------------------------------------
(* The ROM images the header decoder is run on: Len bytes, zero except for *)
(* the header's code bytes.                                                *)

HeaderEnd == \h150

Lengths == {0} \cup (\h143 .. HeaderEnd + MaxPad)

CgbBytes == {\h00, \h80}

SgbBytes == {\h00, \h03}

ComponentBytes == {\h00, \h03, \h15}

RomSizeBytes == {\h00, \h07}

RamSizeBytes == {\h00, \h05}

ChecksumBytes == {\h00, \hE7, \hFF}

\* The image of n bytes with the given bytes at 0x143, 0x146 .. 0x149, 0x14D.
Image(n, cgb, sgb, comp, romc, ramc, chk) ==
  [i \in 1 .. n |->
     CASE i - 1 = \h143 -> cgb
       [] i - 1 = \h146 -> sgb
       [] i - 1 = \h147 -> comp
       [] i - 1 = \h148 -> romc
       [] i - 1 = \h149 -> ramc
       [] i - 1 = \h14D -> chk
       [] OTHER         -> 0]

Images ==
  { Image(n, cgb, sgb, comp, romc, ramc, chk) :
      n \in Lengths, cgb \in CgbBytes, sgb \in SgbBytes,
      comp \in ComponentBytes, romc \in RomSizeBytes,
      ramc \in RamSizeBytes, chk \in ChecksumBytes }

\* The byte of the image at offset off (0-based, as in the source).
At(rom, off) == rom[off + 1]

\* A value that is not a Result: what Into and size_bytes return.
Val(v) == [kind |-> "Val", val |-> v]

None == [kind |-> "None"]

---------------------------------------------------------------------------
(* Header decoder: one action per function, applied to the loaded image.   *)

Init ==
  /\ bytes \in Images
  /\ call = "none"
  /\ arg = None
  /\ ret = None
  /\ reg = None

Returns(name, a, r) ==
  /\ call' = name
  /\ arg' = a
  /\ ret' = r
  /\ UNCHANGED <<bytes, reg>>

Call_ROM_region(region) ==
  Returns("ROM::region", region, ROM_region(bytes, region))

Call_read_title == Returns("read_title", None, read_title(bytes))

Call_decode_rom_size == Returns("decode_rom_size", None, decode_rom_size(bytes))

Call_decode_ram_size == Returns("decode_ram_size", None, decode_ram_size(bytes))

Call_decode_components ==
  Returns("decode_components", None, decode_components(bytes))

Call_decode_is_cgb == Returns("decode_is_cgb", None, decode_is_cgb(bytes))

Call_decode_is_sgb == Returns("decode_is_sgb", None, decode_is_sgb(bytes))

Call_check_header_sum ==
  Returns("check_header_sum", None, check_header_sum(bytes))

Call_Cartridge_new_no_check ==
  Returns("Cartridge::new_no_check", None, Cartridge_new_no_check(bytes))

Call_Cartridge_new == Returns("Cartridge::new", None, Cartridge_new(bytes))

Next ==
  \/ \E region \in Regions : Call_ROM_region(region)
  \/ Call_read_title
  \/ Call_decode_rom_size
  \/ Call_decode_ram_size
  \/ Call_decode_components
  \/ Call_decode_is_cgb
  \/ Call_decode_is_sgb
  \/ Call_check_header_sum
  \/ Call_Cartridge_new_no_check
  \/ Call_Cartridge_new

Spec == Init /\ [][Next]_vars

---------------------------------------------------------------------------
(* Capacity codes: the conversions applied to drawn codes and classes, and *)
(* to each other's results.                                                *)

InitNum ==
  /\ bytes = <<>>
  /\ call = "none"
  /\ arg = None
  /\ ret = None
  /\ reg = None

Call_ROMNum_try_from(c) ==
  Returns("ROMNum::try_from", Val(c), ROMNum_try_from(c))

\* Into applied to the class a try_from returned; arg stays the drawn code.
Call_ROMNum_into_back ==
  /\ call = "ROMNum::try_from"
  /\ IsOk(ret)
  /\ Returns("ROMNum::try_from.into", arg, Val(ROMNum_into(ret.val)))

Call_ROMNum_size_bytes ==
  /\ call = "ROMNum::try_from"
  /\ IsOk(ret)
  /\ Returns("ROMNum::try_from.size_bytes", arg, Val(ROMNum_size_bytes(ret.val)))

Call_ROMNum_into(k) == Returns("ROMNum::into", Val(k), Val(ROMNum_into(k)))

\* try_from applied to the code an Into returned; arg stays the drawn class.
Call_ROMNum_try_from_back ==
  /\ call = "ROMNum::into"
  /\ Returns("ROMNum::into.try_from", arg, ROMNum_try_from(ret.val))

Call_RAMNum_try_from(c) ==
  Returns("RAMNum::try_from", Val(c), RAMNum_try_from(c))

Call_RAMNum_into_back ==
  /\ call = "RAMNum::try_from"
  /\ IsOk(ret)
  /\ Returns("RAMNum::try_from.into", arg, Val(RAMNum_into(ret.val)))

Call_RAMNum_size_bytes ==
  /\ call = "RAMNum::try_from"
  /\ IsOk(ret)
  /\ Returns("RAMNum::try_from.size_bytes", arg, Val(RAMNum_size_bytes(ret.val)))

Call_RAMNum_into(k) == Returns("RAMNum::into", Val(k), Val(RAMNum_into(k)))

Call_RAMNum_try_from_back ==
  /\ call = "RAMNum::into"
  /\ Returns("RAMNum::into.try_from", arg, RAMNum_try_from(ret.val))

NextNum ==
  \/ \E c \in 0 .. MaxCode : Call_ROMNum_try_from(c)
  \/ Call_ROMNum_into_back
  \/ Call_ROMNum_size_bytes
  \/ \E k \in ROMNumSet : Call_ROMNum_into(k)
  \/ Call_ROMNum_try_from_back
  \/ \E c \in 0 .. MaxCode : Call_RAMNum_try_from(c)
  \/ Call_RAMNum_into_back
  \/ Call_RAMNum_size_bytes
  \/ \E k \in RAMNumSet : Call_RAMNum_into(k)
  \/ Call_RAMNum_try_from_back

SpecNum == InitNum /\ [][NextNum]_vars

---------------------------------------------------------------------------
(* Instruction decoder: decode applied to drawn windows.                   *)

WindowBytes == {\h00, \h09, \hCB, \hDD}

Windows == UNION {[1 .. n -> WindowBytes] : n \in 0 .. MaxWindow}

\* bytes: [u8; 4]
DecoderWindowLen == 4

InitInstr ==
  /\ bytes = <<>>
  /\ call = "none"
  /\ arg = None
  /\ ret = None
  /\ reg = None

Call_Instr_decode(raw) == Returns("Instr::decode", Val(raw), Instr_decode(raw))

Call_Decoder_new(bs) == Returns("Decoder::new", Val(bs), Val(Decoder_new(bs)))

Call_Decoder_Prefix_from ==
  /\ call = "Decoder::new"
  /\ Returns("Decoder<Prefix>::from", arg, Decoder_Prefix_from(ret.val))

Call_Prefix_try_from(raw) ==
  Returns("Prefix::try_from", Val(raw), Prefix_try_from(raw))

\* Into applied to the Prefix a try_from returned; arg stays the drawn byte.
Call_Prefix_into_back ==
  /\ call = "Prefix::try_from"
  /\ IsOk(ret)
  /\ Returns("Prefix::try_from.into", arg, Val(Prefix_into(ret.val)))

NextInstr ==
  \/ \E raw \in Windows : Call_Instr_decode(raw)
  \/ \E bs \in [1 .. DecoderWindowLen -> WindowBytes] : Call_Decoder_new(bs)
  \/ Call_Decoder_Prefix_from
  \/ \E raw \in Byte : Call_Prefix_try_from(raw)
  \/ Call_Prefix_into_back

SpecInstr == InitInstr /\ [][NextInstr]_vars

---------------------------------------------------------------------------
(* Registers                                                               *)

\* Reg::new
Reg_new(initial) == [value |-> initial]

\* Reg::get
Reg_get(r) == r.value

\* Reg::set
Reg_set(r, new_value) == [r EXCEPT !.value = new_value]

\* `x as u8` of an unsigned value: the low eight bits.
U16AsU8(x) == x % 256

\* CompositeReg::set
CompositeReg_set(cr, new_value) ==
  [upper |-> Reg_set(cr.upper, U16AsU8(new_value \div 256)),
   lower |-> Reg_set(cr.lower, U16AsU8(new_value % 256))]

\* CompositeReg::new
CompositeReg_new(initial) ==
  CompositeReg_set([upper |-> Reg_new(0), lower |-> Reg_new(0)], initial)

\* How the crate is built: with overflow checks (the debug profile) or
\* without (the release profile).
Builds == {"debug", "release"}

RECURSIVE Pow2(_)
Pow2(n) == IF n = 0 THEN 1 ELSE 2 * Pow2(n - 1)

\* CompositeReg::get: (self.upper.get() << 8 + self.lower.get()) as u16.
\* `+` binds tighter than `<<`, so this is upper << (8 + lower), all in u8.
\* With overflow checks the sum panics when it passes 255 and the shift
\* panics when its amount is 8 or more, which it always is.  Without them
\* the sum wraps, the shift amount is taken modulo 8 and the bits shifted
\* out of the u8 are lost.
CompositeReg_get(cr, build) ==
  LET upper == Reg_get(cr.upper)
      lower == Reg_get(cr.lower)
  IN  IF build = "debug"
      THEN IF 8 + lower > 255 THEN Panic
           ELSE IF 8 + lower >= 8 THEN Panic
           ELSE Val((upper * Pow2(8 + lower)) % 256)
      ELSE LET amount == (8 + lower) % 256
           IN  Val((upper * Pow2(amount % 8)) % 256)

\* The 16-bit values and the bytes written to the registers.
RegValues ==
  {\h0000, \h0001, \h0007, \h00F8, \h00FF, \h0100, \h0101, \h1234, \h80FF,
   \hABCD, \hFFFF}

HalfValues == {\h00, \h01, \h80, \hFF}

InitReg ==
  /\ bytes = <<>>
  /\ \E initial \in RegValues :
       /\ reg = CompositeReg_new(initial)
       /\ arg = Val(initial)
  /\ call = "CompositeReg::new"
  /\ ret = None

Call_CompositeReg_set(v) ==
  /\ reg' = CompositeReg_set(reg, v)
  /\ call' = "CompositeReg::set"
  /\ arg' = Val(v)
  /\ ret' = None
  /\ UNCHANGED bytes

\* upper_mut().set(b)
Call_upper_set(b) ==
  /\ reg' = [reg EXCEPT !.upper = Reg_set(reg.upper, b)]
  /\ call' = "upper_mut().set"
  /\ arg' = Val(b)
  /\ ret' = None
  /\ UNCHANGED bytes

\* lower_mut().set(b)
Call_lower_set(b) ==
  /\ reg' = [reg EXCEPT !.lower = Reg_set(reg.lower, b)]
  /\ call' = "lower_mut().set"
  /\ arg' = Val(b)
  /\ ret' = None
  /\ UNCHANGED bytes

\* get() right after CompositeReg::new(v) or CompositeReg::set(v): arg stays
\* the value written.
Call_CompositeReg_get_back ==
  /\ call \in {"CompositeReg::new", "CompositeReg::set"}
  /\ \E build \in Builds : ret' = CompositeReg_get(reg, build)
  /\ call' = "CompositeReg::set.get"
  /\ UNCHANGED <<bytes, arg, reg>>

\* get() after a write to one half.
Call_CompositeReg_get ==
  /\ call \in {"upper_mut().set", "lower_mut().set"}
  /\ \E build \in Builds : ret' = CompositeReg_get(reg, build)
  /\ call' = "CompositeReg::get"
  /\ arg' = None
  /\ UNCHANGED <<bytes, reg>>

NextReg ==
  \/ \E v \in RegValues : Call_CompositeReg_set(v)
  \/ \E b \in HalfValues : Call_upper_set(b)
  \/ \E b \in HalfValues : Call_lower_set(b)
  \/ Call_CompositeReg_get_back
  \/ Call_CompositeReg_get

SpecReg == InitReg /\ [][NextReg]_vars

---------------------------------------------------------------------------
(* Properties                                                              *)

\* The image with byte v at offset off.
WithByte(rom, off, v) == [rom EXCEPT ![off + 1] = v]

\* The ROM capacity codes the header format defines, and the RAM ones.
RomCodes == {0, 1, 2, 3, 4, 5, 6, \h52, \h53, \h54}

RamCodes == {0, 1, 2, 3, 4}

\* C1: for every buffer, Cartridge::new and Cartridge::new_no_check return
\* Ok(header) or a typed CartErr (no step of header decoding faults), and a
\* buffer too short for the first header region read yields RegionOOB.
C1_HeaderDecodeNeverFaults ==
  call \in {"Cartridge::new", "Cartridge::new_no_check"} =>
    /\ IsOk(ret) \/ IsErr(ret)
    /\ Len(bytes) < META_TITLE.hi => ret = Err(RegionOOB)

\* C2: region extraction on a buffer of length L succeeds exactly when
\* start <= end <= L (end = L included) and then returns the end - start
\* bytes buffer[start..end); otherwise it fails with RegionOOB.
C2_RegionExtraction ==
  call = "ROM::region" =>
    IF arg.lo <= arg.hi /\ arg.hi <= Len(bytes)
    THEN /\ IsOk(ret)
         /\ Len(ret.val.bytes) = arg.hi - arg.lo
         /\ \A i \in 1 .. (arg.hi - arg.lo) :
              ret.val.bytes[i] = At(bytes, arg.lo + i - 1)
    ELSE ret = Err(RegionOOB)

\* C3: given the whole header and valid ROM and RAM capacity codes,
\* decode_components accepts
\* exactly 33 values of the byte at 0x147, all in 0x00..0x1F or
\* 0xFD..0xFF, and fails with UnknownComponents(b) for every other byte b.
C3_ComponentCodes ==
  ( /\ call = "decode_components"
    /\ Len(bytes) >= HeaderEnd
    /\ At(bytes, \h148) \in RomCodes
    /\ At(bytes, \h149) \in RamCodes ) =>
    LET decoded(x) == decode_components(WithByte(bytes, \h147, x))
        accepted   == {x \in Byte : IsOk(decoded(x))}
    IN  /\ Cardinality(accepted) = 33
        /\ accepted \subseteq (\h00 .. \h1F) \cup (\hFD .. \hFF)
        /\ \A x \in Byte \ accepted : decoded(x) = Err(UnknownComponents(x))
        /\ IsOk(ret) <=> At(bytes, \h147) \in accepted

\* The number of 16 KiB banks the header format gives each ROM capacity code.
RomBanks(c) ==
  CASE c = 0    -> 2
    [] c = 1    -> 4
    [] c = 2    -> 8
    [] c = 3    -> 16
    [] c = 4    -> 32
    [] c = 5    -> 64
    [] c = 6    -> 128
    [] c = \h52 -> 72
    [] c = \h53 -> 80
    [] c = \h54 -> 96

\* C4: for each of the 10 defined ROM capacity codes, ROMNum::size_bytes of
\* the decoded class is banks x 16 KiB of the table; every other code fails
\* with UnknownROMSize.
C4_RomSizeBytes ==
  /\ call = "ROMNum::try_from" =>
       IF arg.val \in RomCodes THEN IsOk(ret)
       ELSE IsErr(ret) /\ ret.err.tag = "UnknownROMSize"
  /\ call = "ROMNum::try_from.size_bytes" =>
       ret.val = RomBanks(arg.val) * 16 * 1024

\* C5: capacity codes round-trip: a defined ROM or RAM code converted to its
\* class and back gives the code, a class converted to its code and decoded
\* gives the class, and every other code c fails with UnknownROMSize(c) or
\* UnknownRAMSize(c).
C5_CapacityRoundTrip ==
  /\ call = "ROMNum::try_from" =>
       IF arg.val \in RomCodes THEN IsOk(ret) /\ ret.val \in ROMNumSet
       ELSE ret = Err(UnknownROMSize(arg.val))
  /\ call = "ROMNum::try_from.into" => ret = Val(arg.val)
  /\ call = "ROMNum::into" => ret.val \in RomCodes
  /\ call = "ROMNum::into.try_from" => ret = Ok(arg.val)
  /\ call = "RAMNum::try_from" =>
       IF arg.val \in RamCodes THEN IsOk(ret) /\ ret.val \in RAMNumSet
       ELSE ret = Err(UnknownRAMSize(arg.val))
  /\ call = "RAMNum::try_from.into" => ret = Val(arg.val)
  /\ call = "RAMNum::into" => ret.val \in RamCodes
  /\ call = "RAMNum::into.try_from" => ret = Ok(arg.val)

\* A defined code (0x52) came back from try_from followed by into.
C5_Witness ==
  /\ call = "ROMNum::try_from.into"
  /\ arg = Val(\h52)
  /\ ret = Val(\h52)

\* The sum of -(b) - 1 over the bytes of the image at offsets lo .. hi-1.
RECURSIVE NegSum(_, _, _)
NegSum(rom, lo, hi) ==
  IF lo >= hi THEN 0 ELSE (0 - At(rom, lo) - 1) + NegSum(rom, lo + 1, hi)

\* C6: on an image that holds the whole header, header checksum
\* validation succeeds exactly when the low 8 bits of
\* the sum of -(b) - 1 over [0x134, 0x14D) equal the byte at 0x14D, and
\* otherwise fails with BadHeaderChecksum(computed, stored).
C6_HeaderChecksum ==
  (call = "check_header_sum" /\ Len(bytes) >= HeaderEnd) =>
    LET computed == NegSum(bytes, \h134, \h14D) % 256
        stored   == At(bytes, \h14D)
    IN  IF computed = stored
        THEN IsOk(ret)
        ELSE ret = Err(BadHeaderChecksum(computed, stored))

\* C7: with every byte of [0x134, 0x14D) zero, validation succeeds when the
\* stored checksum byte is 0x00 and fails, reporting the computed and the
\* stored value, when it is 0xFF.
C7_ZeroRangeChecksum ==
  ( /\ call = "check_header_sum"
    /\ Len(bytes) >= HeaderEnd
    /\ \A off \in \h134 .. \h14C : At(bytes, off) = 0 ) =>
    /\ At(bytes, \h14D) = \h00 => IsOk(ret)
    /\ At(bytes, \h14D) = \hFF =>
         /\ IsErr(ret)
         /\ ret.err.tag = "BadHeaderChecksum"
         /\ ret.err.stored = \hFF

C9_ModeFlags ==
  /\ (call = "decode_is_cgb" /\ Len(bytes) >= HeaderEnd) =>
       ret = Ok(At(bytes, \h143) = \h80)
  /\ (call = "decode_is_sgb" /\ Len(bytes) >= HeaderEnd) =>
       ret = Ok(At(bytes, \h146) = \h03)
  /\ (call = "Cartridge::new_no_check" /\ IsOk(ret)) =>
       /\ ret.val.is_cgb = (At(bytes, \h143) = \h80)
       /\ ret.val.is_sgb = (At(bytes, \h146) = \h03)

\* C10: Instr::decode returns a decoded instruction whose consumed length is
\* between 1 and 4, or a typed decode error; a window starting 0x00 decodes
\* with length 1, one starting 0xCB 0x00 or 0xDD 0x09 with length 2.
C10_DecodeLength ==
  call = "Instr::decode" =>
    LET raw == arg.val
    IN  /\ IsOk(ret) \/ IsErr(ret)
        /\ IsOk(ret) => ret.val.len \in 1 .. 4
        /\ (Len(raw) >= 1 /\ raw[1] = \h00) => (IsOk(ret) /\ ret.val.len = 1)
        /\ (Len(raw) >= 2 /\ raw[1] = \hCB /\ raw[2] = \h00) =>
             (IsOk(ret) /\ ret.val.len = 2)
        /\ (Len(raw) >= 2 /\ raw[1] = \hDD /\ raw[2] = \h09) =>
             (IsOk(ret) /\ ret.val.len = 2)

\* The four reserved prefix bytes of the instruction encoding.
PrefixBytes == {\hCB, \hDD, \hED, \hFD}

\* C11: Prefix::try_from(b) succeeds iff b is one of 0xCB, 0xDD, 0xED, 0xFD,
\* converting the Prefix it returns back to a byte gives b, and every other
\* byte b gives the error UnknownPrefix(b).
C11_PrefixClassification ==
  /\ call = "Prefix::try_from" =>
       IF arg.val \in PrefixBytes
       THEN IsOk(ret) /\ ret.val \in PrefixSet
       ELSE ret = Err(UnknownPrefix(arg.val))
  /\ call = "Prefix::try_from.into" => ret = Val(arg.val)

\* The byte 0xED was classified and converted back to 0xED.
C11_Witness ==
  /\ call = "Prefix::try_from.into"
  /\ arg = Val(\hED)
  /\ ret = Val(\hED)

\* Every value of enum Component.
Components ==
  {ROM(n) : n \in ROMNumSet} \cup {MBC(n) : n \in MBCNumSet}
    \cup {RAM(n) : n \in RAMNumSet}
    \cup {Battery, MMM, SRAM, Timer, Rumble, PocketCam, BandaiTAMA5,
          HudsonHUC1, HudsonHUC3}

\* C12: in every decoded header each ROM(x) of components() carries the
\* class decoded from the byte at 0x148 and each RAM(y) the class decoded
\* from the byte at 0x149; an image that holds the whole header with valid
\* capacity codes and component code 0x03 decodes to exactly
\* [ROM(x), MBC(1), RAM(y), Battery]; and has_component(c) is true iff c
\* occurs in the list.
C12_ComponentCapacities ==
  /\ (call = "Cartridge::new_no_check" /\ IsOk(ret)) =>
       LET list == Cartridge_components(ret.val)
       IN  /\ \A i \in 1 .. Len(list) :
                /\ list[i].c = "ROM" =>
                     Ok(list[i].n) = ROMNum_try_from(At(bytes, \h148))
                /\ list[i].c = "RAM" =>
                     Ok(list[i].n) = RAMNum_try_from(At(bytes, \h149))
           /\ \A c \in Components :
                Cartridge_has_component(ret.val, c)
                  <=> \E i \in 1 .. Len(list) : list[i] = c
  /\ ( /\ call = "Cartridge::new_no_check"
       /\ Len(bytes) >= HeaderEnd
       /\ At(bytes, \h147) = \h03
       /\ At(bytes, \h148) \in RomCodes
       /\ At(bytes, \h149) \in RamCodes ) =>
       /\ IsOk(ret)
       /\ Cartridge_components(ret.val) =
            << ROM(ROMNum_try_from(At(bytes, \h148)).val), MBC("N1"),
               RAM(RAMNum_try_from(At(bytes, \h149)).val), Battery >>

\* C13: after any sequence of writes ending in CompositeReg::set(v) (or
\* CompositeReg::new(v)), the upper half holds v >> 8, the lower half holds
\* v & 0xFF, and get() returns v without overflow or fault.
C13_RegisterRoundTrip ==
  /\ call \in {"CompositeReg::new", "CompositeReg::set", "CompositeReg::set.get"} =>
       /\ reg.upper.value = arg.val \div 256
       /\ reg.lower.value = arg.val % 256
  /\ call = "CompositeReg::set.get" => ret = Val(arg.val)

===========================================================================
